---- MODULE Spec2Model ----
(***************************************************************************)
(* A model of the google-autocomplete widget:                              *)
(*   - the Autocomplete combobox state machine (components/Autocomplete),  *)
(*   - the GooglePredictions debounced fetcher,                            *)
(*   - the GoogleLibraryService script loader singleton.                   *)
(* Each component has its own specification; the variables of the other    *)
(* components stay at their initial values.                                *)
(***************************************************************************)
EXTENDS Integers, Sequences, FiniteSets, TLC

VARIABLES
  \* ---- Autocomplete (combobox) ----
  state,        \* this.state: highlightedIndex, isOpen, inputValue, selectedItem
  controlled,   \* the state keys the caller supplies as props (props[key] !== undefined)
  props,        \* the values of the controlled props, and defaultHighlightedIndex
  items,        \* this.items, rebuilt on every render pass
  itemCount,    \* this.itemCount, the override of setItemCount (NullIndex: unset)
  isMouseDown,  \* this.isMouseDown
  notes,        \* the notifications of the last handler, in the order fired
  last,         \* the last handler: the method it ended in, and whether it threw
  \* ---- GooglePredictions ----
  gp,           \* this.state: error, predictions
  mounted,      \* this.mounted, the liveness flag
  alive,        \* lifecycle: "new", "mounted" (componentDidMount ran), "unmounted"
  awaiting,     \* componentDidMount is suspended at its await
  service,      \* this.autoCompleteService is set
  query,        \* this.props.query
  now,          \* the clock, in ticks
  timer,        \* the deadline of the debounce timer of fetch (NoTimer: none)
  requests,     \* prediction requests in flight: the queries they carry
  issued,       \* the calls made to getPlacePredictions, in order: their inputs
  readyAt,      \* the time componentDidMount resumed after its await (-1: not yet)
  gpLast,       \* the last step: what it did, and whether the component was torn down
  lastChangeAt, \* the time of the last query change
  burstCalls,   \* the calls made since the current burst of changes began
  \* ---- GoogleLibraryService ----
  instance,     \* GoogleLibraryServiceInstance: the options of the singleton
  script,       \* this.script of the singleton: its src and load status
  injected,     \* the number of script elements appended to the document
  windowGoogle, \* window.google is present
  promise,      \* what each construction returned, and how it settled
  glLast,       \* the last construction: the caller and the options it passed
  \* ---- Autocomplete: timers, scrolling, status announcer, composed handlers ----
  clock,        \* the time, in ticks
  avoidScrolling, \* this.avoidScrolling
  avoidTimers,  \* the deadlines of the pending setTimeout(..., 250) of the hovers
  hover,        \* the last hover: its time and the index of the item
  scrollLog,    \* the last highlight change seen by componentDidUpdate
  acMounted,    \* this._isMounted
  statusTimer,  \* the deadline of the debounce timer of updateStatus
  statusCalls,  \* the times of the calls of updateStatus since the last status update
  previousResultCount, \* this.previousResultCount
  statusLog,    \* the last status update: its time, its message, the state it saw
  evLog,        \* the last composed handler: the caller's handler, and who ran
  \* ---- formatPredictions ----
  fmt,          \* a prediction text, its matched substring, the formatted text
  \* ---- Autocomplete: the render pass and the caller's item count ----
  propsItemCount,     \* this.props.itemCount
  getRootPropsCalled, \* this.getRootProps.called
  renderLog,    \* the last render pass: the element returned, getRootProps calls, the throw
  itemIds       \* the index getItemProps gave to each item of the last render pass

acVars == <<state, controlled, props, items, itemCount, isMouseDown, notes, last>>
gpVars == <<gp, mounted, alive, awaiting, service, query, now, timer, requests,
            issued, readyAt, gpLast, lastChangeAt, burstCalls>>
glVars == <<instance, script, injected, windowGoogle, promise, glLast>>
uiVars == <<clock, avoidScrolling, avoidTimers, hover, scrollLog, acMounted,
            statusTimer, statusCalls, previousResultCount, statusLog, evLog>>
fmtVars == <<fmt>>
rdVars == <<propsItemCount, getRootPropsCalled, renderLog, itemIds>>
auxVars == <<uiVars, fmtVars, rdVars>>
vars == <<acVars, gpVars, glVars, auxVars>>

(***************************************************************************)
(* Bounds                                                                  *)
(***************************************************************************)
MaxItems == 2

\* JS null for highlightedIndex / itemCount (defaultProps.defaultHighlightedIndex: null)
NullIndex == -1
NullItem == "null"
UndefinedItem == "undefined"
\* {} (the value updateStatus passes when no item is at the highlighted index)
EmptyObject == "{}"

\* The items the render callback can register, in render order.
AllItems == <<"A", "B", "C", "D">>
description == [A |-> "Aachen", B |-> "Berlin", C |-> "Bern", D |-> "Bonn"]
ItemSet == {AllItems[i] : i \in 1..MaxItems}
TypedTexts == {"", "be"}

StateKeys == {"highlightedIndex", "isOpen", "inputValue", "selectedItem"}

(***************************************************************************)
(* Autocomplete: helpers                                                   *)
(***************************************************************************)
\* GoogleAutocomplete.itemToString: item ? item.description : ''
itemToString(item) ==
  IF item \in {NullItem, UndefinedItem} THEN ""
  ELSE IF item = EmptyObject THEN "undefined"
  ELSE description[item]

isControlledProp(key) == key \in controlled

\* The breakingChanges prop is neither declared nor defaulted: reading a
\* field of it raises a TypeError.
breakingChangesDefined == FALSE

getState(st) ==
  [k \in DOMAIN st |-> IF isControlledProp(k) THEN props[k] ELSE st[k]]

\* this.props.itemCount when the caller supplies none
UndefinedCount == -1

getItemCountPropsFirst ==
  IF propsItemCount # UndefinedCount THEN propsItemCount
  ELSE IF itemCount # NullIndex THEN itemCount
  ELSE Len(items)

\* getItemCount: this.itemCount, else this.props.itemCount, else
\* this.items.length
getItemCount ==
  IF itemCount # NullIndex THEN itemCount
  ELSE IF propsItemCount # UndefinedCount THEN propsItemCount
  ELSE Len(items)

\* this.items[index] for a JS index; undefined when out of range or null
itemAt(index) ==
  IF index >= 0 /\ index < Len(items) THEN items[index + 1] ELSE UndefinedItem

\* {...a, ...b}
Merge(a, b) ==
  [k \in DOMAIN a \cup DOMAIN b |-> IF k \in DOMAIN b THEN b[k] ELSE a[k]]

\* ---- internalSetState -------------------------------------------------
\* onStateChangeArg: the keys of the update whose value differs from the
\* resolved state; the type always differs (the state has no type).
onStateChangeArgEveryKey(st, upd) == upd

onStateChangeArg(st, upd) ==
  LET cur == getState(st)
      ks == {k \in DOMAIN upd : k = "type" \/ cur[k] # upd[k]}
  IN [k \in ks |-> upd[k]]

\* nextState: the keys written to internal storage
CommitAlsoControlled(st, upd) ==
  [k \in DOMAIN st |-> IF k \in DOMAIN upd THEN upd[k] ELSE st[k]]

Commit(st, upd) ==
  [k \in DOMAIN st |->
     IF k \in DOMAIN upd /\ ~isControlledProp(k) THEN upd[k] ELSE st[k]]

Note(n, v) == [n |-> n, v |-> v]

\* The notifications of one internalSetState(upd, cb), in order.
NotificationsSelectFirst(st, upd, cb) ==
  LET cur == getState(st)
      arg == onStateChangeArg(st, upd)
      hasInput == "inputValue" \in DOMAIN upd
      isItemSelected == "selectedItem" \in DOMAIN upd
      changed == /\ isItemSelected
                 /\ upd.selectedItem # cur.selectedItem
                 /\ upd.selectedItem # UndefinedItem
  IN (IF hasInput THEN <<Note("onInputValueChange", upd.inputValue)>> ELSE <<>>)
     \o <<Note("setState", "commit")>>
     \o <<Note("cb", cb)>>
     \o (IF isItemSelected THEN <<Note("onSelect", upd.selectedItem)>> ELSE <<>>)
     \o (IF Cardinality(DOMAIN arg) > 1 THEN <<Note("onStateChange", arg)>> ELSE <<>>)
     \o (IF changed THEN <<Note("onChange", upd.selectedItem)>> ELSE <<>>)

NotificationsSelectIfChanged(st, upd, cb) ==
  LET cur == getState(st)
      arg == onStateChangeArg(st, upd)
      hasInput == "inputValue" \in DOMAIN upd
      isItemSelected == "selectedItem" \in DOMAIN upd
      changed == /\ isItemSelected
                 /\ upd.selectedItem # cur.selectedItem
                 /\ upd.selectedItem # UndefinedItem
  IN (IF hasInput THEN <<Note("onInputValueChange", upd.inputValue)>> ELSE <<>>)
     \o <<Note("setState", "commit")>>
     \o <<Note("cb", cb)>>
     \o (IF Cardinality(DOMAIN arg) > 1 THEN <<Note("onStateChange", arg)>> ELSE <<>>)
     \o (IF changed THEN <<Note("onSelect", upd.selectedItem)>> ELSE <<>>)
     \o (IF changed THEN <<Note("onChange", upd.selectedItem)>> ELSE <<>>)

Notifications(st, upd, cb) ==
  LET cur == getState(st)
      arg == onStateChangeArg(st, upd)
      hasInput == "inputValue" \in DOMAIN upd
      isItemSelected == "selectedItem" \in DOMAIN upd
      changed == /\ isItemSelected
                 /\ upd.selectedItem # cur.selectedItem
                 /\ upd.selectedItem # UndefinedItem
  IN (IF hasInput THEN <<Note("onInputValueChange", upd.inputValue)>> ELSE <<>>)
     \o <<Note("setState", "commit")>>
     \o <<Note("cb", cb)>>
     \o (IF Cardinality(DOMAIN arg) > 1 THEN <<Note("onStateChange", arg)>> ELSE <<>>)
     \o (IF isItemSelected THEN <<Note("onSelect", upd.selectedItem)>> ELSE <<>>)
     \o (IF changed THEN <<Note("onChange", upd.selectedItem)>> ELSE <<>>)


\* utils.pickState: the state keys of an object, and its type
pickState(other) ==
  [k \in DOMAIN other \cap (StateKeys \cup {"type"}) |-> other[k]]

\* stateToSet.type = stateToSet.type || stateChangeTypes.unknown
withType(upd) ==
  IF "type" \in DOMAIN upd THEN upd ELSE Merge(upd, [type |-> "unknown"])

Domain(k) ==
  CASE k = "highlightedIndex" -> {NullIndex} \cup (0..(MaxItems - 1))
    [] k = "isOpen" -> BOOLEAN
    [] k = "inputValue" -> TypedTexts \cup {description[i] : i \in ItemSet}
    [] k = "selectedItem" -> {NullItem} \cup ItemSet

\* defaultProps: defaultHighlightedIndex null, defaultIsOpen false,
\* defaultInputValue '', defaultSelectedItem null
defaultProps ==
  [highlightedIndex |-> NullIndex, isOpen |-> FALSE, inputValue |-> "",
   selectedItem |-> NullItem]

\* The sets of props a caller may control.
ControlledSets == {{}} \cup {{k} : k \in StateKeys}

(***************************************************************************)
(* Autocomplete: state update primitive as a step                          *)
(***************************************************************************)
\* One internalSetState(upd, cb) run to completion from internal state st.
internalSetState(upd, cb, op, arg) ==
  /\ state' = Commit(state, withType(upd))
  /\ notes' = Notifications(state, withType(upd), cb)
  /\ last' = [op |-> op, type |-> withType(upd).type, threw |-> FALSE, arg |-> arg]

\* A handler that returns without an update.
NoUpdate(op, type, arg) ==
  /\ state' = state
  /\ notes' = <<>>
  /\ last' = [op |-> op, type |-> type, threw |-> FALSE, arg |-> arg]

\* A handler that raises before any update.
Throws(op, type, arg) ==
  /\ state' = state
  /\ notes' = <<>>
  /\ last' = [op |-> op, type |-> type, threw |-> TRUE, arg |-> arg]

\* ---- changeHighlightedIndex --------------------------------------------
newIndexNoWrap(highlightedIndex, moveAmount, itemsLastIndex) ==
  LET baseIndex == IF highlightedIndex = NullIndex
                   THEN (IF moveAmount > 0 THEN -1 ELSE itemsLastIndex + 1)
                   ELSE highlightedIndex
  IN IF baseIndex + moveAmount < 0 THEN 0 ELSE baseIndex + moveAmount

newIndexClamped(highlightedIndex, moveAmount, itemsLastIndex) ==
  LET baseIndex == IF highlightedIndex = NullIndex
                   THEN (IF moveAmount > 0 THEN -1 ELSE itemsLastIndex + 1)
                   ELSE highlightedIndex
      moved == baseIndex + moveAmount
  IN IF moved < 0 THEN 0
     ELSE IF moved > itemsLastIndex THEN itemsLastIndex
     ELSE moved

newIndex(highlightedIndex, moveAmount, itemsLastIndex) ==
  LET baseIndex == IF highlightedIndex = NullIndex
                   THEN (IF moveAmount > 0 THEN -1 ELSE itemsLastIndex + 1)
                   ELSE highlightedIndex
      moved == baseIndex + moveAmount
  IN IF moved < 0 THEN itemsLastIndex
     ELSE IF moved > itemsLastIndex THEN 0
     ELSE moved

\* `op` and `arg` name the caller in the record of the last handler.
setHighlightedIndex(highlightedIndex, otherStateToSet, op, arg) ==
  internalSetState(
    Merge([highlightedIndex |-> highlightedIndex], pickState(otherStateToSet)),
    "noop", op, arg)

\* The move amounts of the arrow keys, and their names in the record of
\* the last handler.
MoveAmounts == {-5, -1, 1, 5}

AmountName(moveAmount) ==
  CASE moveAmount = 1 -> "+1"
    [] moveAmount = 5 -> "+5"
    [] moveAmount = -1 -> "-1"
    [] moveAmount = -5 -> "-5"

changeHighlightedIndexUnguarded(moveAmount, otherStateToSet) ==
  setHighlightedIndex(
    newIndex(getState(state).highlightedIndex, moveAmount, getItemCount - 1),
    otherStateToSet, "changeHighlightedIndex", AmountName(moveAmount))

changeHighlightedIndex(moveAmount, otherStateToSet) ==
  IF getItemCount - 1 < 0
  THEN NoUpdate("changeHighlightedIndex", otherStateToSet.type, AmountName(moveAmount))
  ELSE setHighlightedIndex(
         newIndex(getState(state).highlightedIndex, moveAmount, getItemCount - 1),
         otherStateToSet, "changeHighlightedIndex", AmountName(moveAmount))

openAndHighlightFirst(otherStateToSet) ==
  setHighlightedIndex(0,
                      Merge([isOpen |-> TRUE], otherStateToSet),
                      "openAndHighlightDefaultIndex", "none")

openAndHighlightDefaultIndex(otherStateToSet) ==
  setHighlightedIndex(props.defaultHighlightedIndex,
                      Merge([isOpen |-> TRUE], otherStateToSet),
                      "openAndHighlightDefaultIndex", "none")

moveHighlightedIndex(amount, otherStateToSet) ==
  IF getState(state).isOpen
  THEN changeHighlightedIndex(amount, otherStateToSet)
  ELSE openAndHighlightDefaultIndex(otherStateToSet)

\* ---- selection ---------------------------------------------------------
selectItemUpdate(item, otherStateToSet) ==
  Merge([isOpen |-> FALSE,
         highlightedIndex |-> props.defaultHighlightedIndex,
         selectedItem |-> item,
         inputValue |-> itemToString(item)],
        pickState(otherStateToSet))

selectItem(item, otherStateToSet) ==
  IF isControlledProp("selectedItem") /\ ~breakingChangesDefined
  THEN Throws("selectItem",
              IF "type" \in DOMAIN otherStateToSet THEN otherStateToSet.type
              ELSE "unknown",
              item)
  ELSE internalSetState(selectItemUpdate(item, otherStateToSet), "noop", "selectItem", item)

\* items never hold null here, so the item === null return is not taken
selectItemAtIndex(itemIndex, otherStateToSet) ==
  selectItem(itemAt(itemIndex), otherStateToSet)

selectHighlightedItem(otherStateToSet) ==
  selectItemAtIndex(getState(state).highlightedIndex, otherStateToSet)

\* ---- reset -------------------------------------------------------------
resetUpdateKeepingInput(otherStateToSet) ==
  Merge([isOpen |-> FALSE,
         highlightedIndex |-> props.defaultHighlightedIndex],
        pickState(otherStateToSet))

resetUpdate(otherStateToSet) ==
  Merge([isOpen |-> FALSE,
         highlightedIndex |-> props.defaultHighlightedIndex,
         inputValue |-> itemToString(getState(state).selectedItem)],
        pickState(otherStateToSet))

reset(otherStateToSet, cb, arg) ==
  internalSetState(resetUpdate(otherStateToSet), cb, "reset", arg)


(***************************************************************************)
(* Autocomplete: event handlers and actions                                *)
(***************************************************************************)
acRest == UNCHANGED <<controlled, props, items, itemCount, isMouseDown, gpVars, glVars, auxVars>>

\* keyDownHandlers.ArrowDown / ArrowUp
KeyDownArrowDown(shiftKey) ==
  /\ moveHighlightedIndex(IF shiftKey THEN 5 ELSE 1, [type |-> "keyDownArrowDown"])
  /\ acRest

KeyDownArrowUp(shiftKey) ==
  /\ moveHighlightedIndex(IF shiftKey THEN -5 ELSE -1, [type |-> "keyDownArrowUp"])
  /\ acRest

\* keyDownHandlers.Enter
KeyDownEnter ==
  /\ IF getState(state).isOpen
     THEN selectHighlightedItem([type |-> "keyDownEnter"])
     ELSE NoUpdate("Enter", "keyDownEnter", "none")
  /\ acRest

\* keyDownHandlers.Escape
KeyDownEscape ==
  /\ reset([type |-> "keyDownEscape"], "noop", "none")
  /\ acRest

input_handleFocusOpening ==
  /\ internalSetState([type |-> "focusInput", isOpen |-> TRUE],
                      "noop", "input_handleFocus", "none")
  /\ acRest

input_handleFocusKeepingOpen ==
  /\ internalSetState([type |-> "focusInput", isOpen |-> getState(state).isOpen],
                      "noop", "input_handleFocus", "none")
  /\ acRest

input_handleFocus ==
  /\ internalSetState([type |-> "focusInput",
                       isOpen |-> Len(getState(state).inputValue) > 0],
                      "noop", "input_handleFocus", "none")
  /\ acRest

input_handleChange(value) ==
  /\ internalSetState([type |-> "changeInput", isOpen |-> TRUE, inputValue |-> value],
                      "noop", "input_handleChange", value)
  /\ acRest

input_handleBlur ==
  /\ IF ~isMouseDown
     THEN reset([type |-> "blurInput"], "noop", "none")
     ELSE NoUpdate("input_handleBlur", "blurInput", "none")
  /\ acRest

\* environment mousedown listener
onMouseDown ==
  /\ isMouseDown' = TRUE
  /\ NoUpdate("onMouseDown", "mouseDown", "none")
  /\ UNCHANGED <<controlled, props, items, itemCount, gpVars, glVars, auxVars>>

\* the state the mouseup listener hands to reset
mouseUpStateNoInput == [type |-> "mouseUp"]

mouseUpState ==
  [type |-> "mouseUp", inputValue |-> getState(state).inputValue]

\* environment mouseup listener; outside: the target is the root node or is
\* not contained in it
onMouseUp(outside) ==
  /\ isMouseDown' = FALSE
  /\ IF outside /\ getState(state).isOpen
     THEN reset(mouseUpState, "onOuterClick", "outside")
     ELSE NoUpdate("onMouseUp", "mouseUp", IF outside THEN "outside" ELSE "inside")
  /\ UNCHANGED <<controlled, props, items, itemCount, gpVars, glVars, auxVars>>

\* getItemProps(...).onMouseEnter of the item rendered at JS index `index`
ItemMouseEnter(index) ==
  /\ index < Len(items)
  /\ setHighlightedIndex(index, [type |-> "itemMouseEnter"], "setHighlightedIndex", "none")
  /\ acRest

\* getItemProps(...).onClick of the item rendered at JS index `index`
ItemClick(index) ==
  /\ index < Len(items)
  /\ selectItemAtIndex(index, <<>>)
  /\ acRest

\* the selectItem action handed to the render callback
SelectItem(item) ==
  /\ selectItem(item, <<>>)
  /\ acRest

\* clearSelection
clearSelection ==
  /\ internalSetState([selectedItem |-> NullItem, inputValue |-> "", isOpen |-> FALSE],
                      "focusInput", "clearSelection", "none")
  /\ acRest

\* toggleMenu: flips isOpen; its callback highlights the default index when
\* the list is open afterwards (a second internalSetState)
toggleMenu(otherStateToSet) ==
  LET upd1 == withType(Merge([isOpen |-> ~getState(state).isOpen],
                             pickState(otherStateToSet)))
      st1 == Commit(state, upd1)
      n1 == Notifications(state, upd1, "toggleMenu")
      upd2 == withType([highlightedIndex |-> props.defaultHighlightedIndex])
  IN /\ last' = [op |-> "toggleMenu", type |-> upd1.type, threw |-> FALSE, arg |-> "none"]
     /\ IF getState(st1).isOpen
        THEN /\ state' = Commit(st1, upd2)
             /\ notes' = n1 \o Notifications(st1, upd2, "noop")
        ELSE /\ state' = st1
             /\ notes' = n1

button_handleClick ==
  /\ toggleMenu([type |-> "clickButton"])
  /\ acRest

\* buttonKeyDownHandlers[' ']; the other keys of the toggle button are the
\* spread keyDownHandlers, so Enter on the button is KeyDownEnter.
ButtonKeyDownSpace ==
  /\ toggleMenu([type |-> "keyDownSpaceButton"])
  /\ acRest

\* setItemCount / unsetItemCount
setItemCount(count) ==
  /\ itemCount' = count
  /\ NoUpdate("setItemCount", "none", "none")
  /\ UNCHANGED <<controlled, props, items, isMouseDown, gpVars, glVars, auxVars>>

unsetItemCount ==
  /\ itemCount' = NullIndex
  /\ NoUpdate("unsetItemCount", "none", "none")
  /\ UNCHANGED <<controlled, props, items, isMouseDown, gpVars, glVars, auxVars>>

\* A render pass in which the caller's callback registers n items:
\* clearItems, then one getItemProps({item}) per rendered item.
Render(n) ==
  /\ n # Len(items)
  /\ items' = SubSeq(AllItems, 1, n)
  /\ NoUpdate("render", "none", "none")
  /\ UNCHANGED <<controlled, props, itemCount, isMouseDown, gpVars, glVars, auxVars>>

\* defaultProps.selectedItemChanged: (prevItem, item) => prevItem !== item
selectedItemChangedAlways(prevItem, item) == TRUE

selectedItemChanged(prevItem, item) == prevItem # item

\* The most componentDidUpdate passes followed after one change of the prop.
MaxPasses == 3

\* The number of internalSetState calls componentDidUpdate makes after the
\* selectedItem prop went from prevItem to item: each call re-renders, and
\* the next componentDidUpdate sees the same props before and after.
RECURSIVE syncUpdates(_, _, _)
syncUpdates(prevItem, item, passes) ==
  IF passes = 0 \/ ~selectedItemChanged(prevItem, item) THEN 0
  ELSE 1 + syncUpdates(item, item, passes - 1)

\* The caller re-renders with a new value for a controlled prop;
\* componentDidUpdate then synchronises inputValue with a changed
\* controlled selectedItem (selectedItemChanged: prevItem !== item).
ParentRender(key, value) ==
  /\ isControlledProp(key)
  /\ value # props[key]
  /\ props' = [props EXCEPT ![key] = value]
  /\ IF key = "selectedItem" /\ selectedItemChanged(props.selectedItem, value)
     THEN LET upd == [type |-> "controlledPropUpdatedSelectedItem",
                      inputValue |-> itemToString(value)]
              cur == [k \in StateKeys |->
                        IF isControlledProp(k) THEN props'[k] ELSE state[k]]
              ks == {k \in DOMAIN upd : k = "type" \/ cur[k] # upd[k]}
          IN /\ state' = Commit(state, upd)
             /\ notes' = <<Note("onInputValueChange", upd.inputValue),
                           Note("setState", "commit"),
                           Note("cb", "noop")>>
                         \o (IF Cardinality(ks) > 1
                             THEN <<Note("onStateChange", [k \in ks |-> upd[k]])>>
                             ELSE <<>>)
             /\ last' = [op |-> "componentDidUpdate", type |-> upd.type, threw |-> FALSE,
                         arg |-> ToString(syncUpdates(props.selectedItem, value, MaxPasses))]
     ELSE NoUpdate("parentRender", "none", "none")
  /\ UNCHANGED <<controlled, items, itemCount, isMouseDown, gpVars, glVars, auxVars>>

\* The value of a prop at construction: the caller's value when it controls
\* the prop, none (kept at the default) when it does not. The constructor
\* inspects only selectedItem, so the other controlled props start at the
\* value of their default and take their other values by ParentRender.
PropValues(k) ==
  IF k \in controlled /\ k = "selectedItem" THEN Domain(k) ELSE {defaultProps[k]}

acInit(sets) ==
  /\ controlled \in sets
  /\ \E dh \in {NullIndex, 0} :
     \E p \in [highlightedIndex : PropValues("highlightedIndex"),
               isOpen : PropValues("isOpen"),
               inputValue : PropValues("inputValue"),
               selectedItem : PropValues("selectedItem")] :
       /\ props = Merge(p, [defaultHighlightedIndex |-> dh])
       \* constructor: getState over the defaults; a truthy selectedItem
       \* seeds inputValue
       /\ state = [k \in StateKeys |->
                     IF k = "inputValue" /\ p.selectedItem # NullItem
                     THEN itemToString(p.selectedItem)
                     ELSE p[k]]
  /\ items = <<>>
  /\ itemCount = NullIndex
  /\ isMouseDown = FALSE
  /\ notes = <<>>
  /\ last = [op |-> "constructor", type |-> "none", threw |-> FALSE, arg |-> "none"]

acEvents ==
  \/ \E shiftKey \in BOOLEAN : KeyDownArrowDown(shiftKey)
  \/ \E shiftKey \in BOOLEAN : KeyDownArrowUp(shiftKey)
  \/ KeyDownEnter
  \/ KeyDownEscape
  \/ input_handleFocus
  \/ \E value \in TypedTexts : input_handleChange(value)
  \/ input_handleBlur
  \/ onMouseDown
  \/ \E outside \in BOOLEAN : onMouseUp(outside)
  \/ \E index \in 0..(MaxItems - 1) : ItemMouseEnter(index)
  \/ \E index \in 0..(MaxItems - 1) : ItemClick(index)
  \/ \E item \in ItemSet : SelectItem(item)
  \/ clearSelection
  \/ button_handleClick
  \/ ButtonKeyDownSpace
  \/ \E n \in 0..MaxItems : Render(n)

\* An uncontrolled component (the way GoogleAutocomplete uses it), with the
\* item count override.
acNext ==
  \/ acEvents
  \/ \E count \in 0..MaxItems : setItemCount(count)
  \/ unsetItemCount

\* A component with at most one controlled prop, which the caller may
\* change at any time.
acNextControlled ==
  \/ acEvents
  \/ \E key \in StateKeys : \E value \in Domain(key) : ParentRender(key, value)

(***************************************************************************)
(* GoogleLibraryService: the script loader singleton                       *)
(***************************************************************************)
MaxCallers == 3
Callers == 1..MaxCallers

\* The credentials a construction can pass ("" is an absent option).
Options == [apiKey : {"", "k1", "k2"}, client : {"", "c1"}]

Unborn == [status |-> "unborn", value |-> "undefined"]

\* The credential checks of the constructor.
invalidOptionsOnlyMissing(options) ==
  options.apiKey = "" /\ options.client = ""

invalidOptions(options) ==
  \/ options.apiKey = "" /\ options.client = ""
  \/ options.apiKey # "" /\ options.client # ""

\* createGoogleMapsApiUrl with only credentials given: the falsy
\* parameters are dropped, libraries defaults to places and v to 3.
createGoogleMapsApiUrl(options) ==
  "https://maps.googleapis.com/maps/api/js?"
  \o (IF options.apiKey # "" THEN "key=" \o options.apiKey \o "&" ELSE "")
  \o (IF options.client # "" THEN "client=" \o options.client \o "&" ELSE "")
  \o "libraries=places&v=3"

\* loadScript creates and appends the script element only when the
\* singleton has none yet.
createsScriptAlways(scr) == TRUE

createsScript(scr) == scr.status = "none"

\* What a listener registered by loadScript does to a pending promise when
\* the script fires `event`.
settleIgnoringError(p, event) ==
  IF p.status = "pending" /\ event = "load"
  THEN [status |-> "resolved", value |-> "google"]
  ELSE p

settle(p, event) ==
  IF p.status # "pending" THEN p
  ELSE IF event = "load" THEN [status |-> "resolved", value |-> "google"]
  ELSE [status |-> "rejected", value |-> "error"]

\* new GoogleLibraryService(options) by caller c
Construct(c, options) ==
  /\ promise[c] = Unborn
  /\ glLast' = [caller |-> c, options |-> options]
  /\ LET inst == IF instance = <<>> THEN <<options>> ELSE instance
     IN /\ instance' = inst
        /\ IF invalidOptions(options)
           THEN /\ promise' = [promise EXCEPT ![c] = [status |-> "threw", value |-> "Error"]]
                /\ UNCHANGED <<script, injected>>
           ELSE IF windowGoogle
           THEN \* init returns window.google itself
                /\ promise' = [promise EXCEPT ![c] = [status |-> "value", value |-> "google"]]
                /\ UNCHANGED <<script, injected>>
           ELSE \* loadScript on the singleton
                /\ promise' = [promise EXCEPT ![c] = [status |-> "pending", value |-> "undefined"]]
                /\ IF createsScript(script)
                   THEN /\ script' = [status |-> "loading",
                                      src |-> createGoogleMapsApiUrl(inst[1])]
                        /\ injected' = injected + 1
                   ELSE UNCHANGED <<script, injected>>
  /\ UNCHANGED <<windowGoogle, acVars, gpVars, auxVars>>

\* The script element fires load: the library has installed window.google.
ScriptLoad ==
  /\ script.status = "loading"
  /\ script' = [script EXCEPT !.status = "loaded"]
  /\ windowGoogle' = TRUE
  /\ promise' = [c \in Callers |-> settle(promise[c], "load")]
  /\ UNCHANGED <<instance, injected, glLast, acVars, gpVars, auxVars>>

\* The script element fires error.
ScriptError ==
  /\ script.status = "loading"
  /\ script' = [script EXCEPT !.status = "error"]
  /\ promise' = [c \in Callers |-> settle(promise[c], "error")]
  /\ UNCHANGED <<instance, injected, windowGoogle, glLast, acVars, gpVars, auxVars>>

glInit ==
  /\ instance = <<>>
  /\ script = [status |-> "none", src |-> ""]
  /\ injected = 0
  /\ windowGoogle \in BOOLEAN
  /\ promise = [c \in Callers |-> Unborn]
  /\ glLast = [caller |-> 0, options |-> [apiKey |-> "", client |-> ""]]

glIdle ==
  /\ instance = <<>>
  /\ script = [status |-> "none", src |-> ""]
  /\ injected = 0
  /\ windowGoogle = FALSE
  /\ promise = [c \in Callers |-> Unborn]
  /\ glLast = [caller |-> 0, options |-> [apiKey |-> "", client |-> ""]]

glNext ==
  \/ \E c \in Callers : \E options \in Options : Construct(c, options)
  \/ ScriptLoad
  \/ ScriptError


(***************************************************************************)
(* GooglePredictions: the debounced prediction fetcher                     *)
(***************************************************************************)
\* defaultProps.threshold, and defaultProps.debounce in ticks of 100 ms
threshold == 2
wait == 2
MaxTime == 6
NoTimer == -1

Queries == {"", "be", "ber", "berl"}

GpStep(op) ==
  [op |-> op, unmounted |-> alive = "unmounted", status |-> "none", input |-> ""]

\* The guard of the debounced function: it returns early unless the
\* liveness flag is set and the query is longer than the threshold.
fetchReturnsEarlyIgnoringFlag(isMounted, q) == Len(q) <= threshold

fetchReturnsEarly(isMounted, q) == ~isMounted \/ Len(q) <= threshold

\* A call of the debounced fetch: the pending timer is cleared and a new
\* one is set, `wait` after the call.
debounceKeepingTimer(t) == IF timer # NoTimer THEN timer ELSE t + wait

debounce(t) == t + wait

\* The rest of componentDidMount after its await: it creates the service,
\* sets the liveness flag and calls fetch, whatever happened meanwhile.
resume ==
  /\ awaiting' = FALSE
  /\ service' = TRUE
  /\ mounted' = TRUE
  /\ readyAt' = now
  /\ timer' = debounce(now)

\* componentDidMount up to its await; `ready`: window.google is present
\* already, so the await resumes before any other event.
componentDidMount(ready) ==
  /\ alive = "new"
  /\ alive' = "mounted"
  /\ gpLast' = GpStep("componentDidMount")
  /\ IF ready
     THEN resume
     ELSE /\ awaiting' = TRUE
          /\ UNCHANGED <<service, mounted, readyAt, timer>>
  /\ UNCHANGED <<gp, query, now, requests, issued, lastChangeAt, burstCalls, acVars, glVars, auxVars>>

\* The loader's promise resolves (the script fired load).
AwaitResolves ==
  /\ awaiting
  /\ resume
  /\ gpLast' = GpStep("resume")
  /\ UNCHANGED <<gp, alive, query, now, requests, issued, lastChangeAt, burstCalls, acVars, glVars, auxVars>>

\* The loader's promise rejects (the script fired error): componentDidMount
\* ends with an unhandled rejection.
AwaitRejects ==
  /\ awaiting
  /\ awaiting' = FALSE
  /\ gpLast' = GpStep("rejected")
  /\ UNCHANGED <<gp, mounted, alive, service, query, now, timer, requests, issued,
                 readyAt, lastChangeAt, burstCalls, acVars, glVars, auxVars>>

\* The caller renders a new query; componentDidUpdate calls fetch when the
\* query is non-empty and differs from the previous one.
componentDidUpdate(q) ==
  /\ alive = "mounted"
  /\ q # query
  /\ query' = q
  /\ timer' = IF Len(q) > 0 THEN debounce(now) ELSE timer
  /\ lastChangeAt' = now
  /\ burstCalls' = IF lastChangeAt = -1 \/ now - lastChangeAt >= wait
                   THEN <<>> ELSE burstCalls
  /\ gpLast' = GpStep("componentDidUpdate")
  /\ UNCHANGED <<gp, mounted, alive, awaiting, service, now, requests, issued, readyAt, acVars, glVars, auxVars>>

componentWillUnmount ==
  /\ alive = "mounted"
  /\ alive' = "unmounted"
  /\ mounted' = FALSE
  /\ service' = FALSE
  /\ gpLast' = GpStep("componentWillUnmount")
  /\ UNCHANGED <<gp, awaiting, query, now, timer, requests, issued, readyAt,
                 lastChangeAt, burstCalls, acVars, glVars, auxVars>>

\* Time passes; a due timer fires before the clock moves on.
Tick ==
  /\ now < MaxTime
  /\ timer = NoTimer \/ timer > now
  /\ now' = now + 1
  /\ gpLast' = GpStep("tick")
  /\ UNCHANGED <<gp, mounted, alive, awaiting, service, query, timer, requests,
                 issued, readyAt, lastChangeAt, burstCalls, acVars, glVars, auxVars>>

\* The debounce timer fires: the body of fetch runs.
fetch ==
  /\ timer # NoTimer
  /\ timer <= now
  /\ timer' = NoTimer
  /\ IF fetchReturnsEarly(mounted, query)
     THEN /\ gpLast' = GpStep("fetchReturned")
          /\ UNCHANGED <<requests, issued, burstCalls>>
     ELSE /\ gpLast' = GpStep("getPlacePredictions")
          /\ issued' = Append(issued, query)
          /\ requests' = requests \cup {[id |-> Len(issued) + 1, input |-> query]}
          /\ burstCalls' = Append(burstCalls, [input |-> query, at |-> now])
  /\ UNCHANGED <<gp, mounted, alive, awaiting, service, query, now, readyAt, lastChangeAt, acVars, glVars, auxVars>>

\* The external API calls back for request r. React drops a setState on an
\* unmounted component, so the stored state changes only while mounted.
callbackStateKeepingPredictions(r, status) ==
  IF status = "OK"
  THEN [error |-> "false", predictions |-> <<r.input>>]
  ELSE [error |-> "true", predictions |-> gp.predictions]

\* The state the callback passes to setState: the formatted predictions of
\* the response (here: the query they answer) when the status is OK, the
\* error flag and no predictions otherwise.
callbackState(r, status) ==
  IF status = "OK"
  THEN [error |-> "false", predictions |-> <<r.input>>]
  ELSE [error |-> "true", predictions |-> <<>>]

predictionsCallback(r, status) ==
  /\ r \in requests
  /\ requests' = requests \ {r}
  /\ gpLast' = [GpStep("setState") EXCEPT !.status = status, !.input = r.input]
  /\ gp' = IF alive = "unmounted" THEN gp ELSE callbackState(r, status)
  /\ UNCHANGED <<mounted, alive, awaiting, service, query, now, timer, issued,
                 readyAt, lastChangeAt, burstCalls, acVars, glVars, auxVars>>

gpInit ==
  /\ gp = [error |-> "null", predictions |-> <<>>]
  /\ mounted = FALSE
  /\ alive = "new"
  /\ awaiting = FALSE
  /\ service = FALSE
  /\ query \in Queries
  /\ now = 0
  /\ timer = NoTimer
  /\ requests = {}
  /\ issued = <<>>
  /\ readyAt = -1
  /\ gpLast = [op |-> "constructor", unmounted |-> FALSE, status |-> "none", input |-> ""]
  /\ lastChangeAt = -1
  /\ burstCalls = <<>>

gpIdle ==
  /\ gpInit
  /\ query = ""

gpNext ==
  \/ \E ready \in BOOLEAN : componentDidMount(ready)
  \/ AwaitResolves
  \/ AwaitRejects
  \/ \E q \in Queries : componentDidUpdate(q)
  \/ componentWillUnmount
  \/ Tick
  \/ fetch
  \/ \E r \in requests : \E status \in {"OK", "ZERO_RESULTS"} : predictionsCallback(r, status)

(***************************************************************************)
(* Autocomplete: hover and scrolling into view                             *)
(***************************************************************************)
\* The delay of the timer a hover sets (250 ms), in ticks of 125 ms.
avoidDelay == 2
MaxClock == 4

\* What a handler of the timed specifications leaves alone.
acKeep == UNCHANGED <<controlled, props, items, itemCount, isMouseDown, gpVars, glVars, fmtVars, rdVars>>

\* componentDidUpdate: a changed highlighted index is scrolled into view
\* unless avoidScrolling is set.
scrollHighlightedItemIntoView ==
  scrollLog' =
    IF getState(state').highlightedIndex # getState(state).highlightedIndex
    THEN [at |-> clock,
          sinceHover |-> IF hover'.at = -1 THEN -1 ELSE clock - hover'.at,
          scrolled |-> ~avoidScrolling']
    ELSE scrollLog

\* getItemProps(...).onMouseEnter: the highlight, then avoidScrolling = true
\* and a timer that clears it 250 ms later; the update is flushed, and
\* componentDidUpdate runs, when the handler has returned.
HoverItem(index) ==
  /\ index < Len(items)
  /\ setHighlightedIndex(index, [type |-> "itemMouseEnter"], "setHighlightedIndex", "none")
  /\ avoidScrolling' = TRUE
  /\ avoidTimers' = avoidTimers \cup {clock + avoidDelay}
  /\ hover' = [at |-> clock, index |-> index]
  /\ scrollHighlightedItemIntoView
  /\ acKeep
  /\ UNCHANGED <<clock, acMounted, statusTimer, statusCalls, previousResultCount,
                 statusLog, evLog>>

\* setTimeout(() => (this.avoidScrolling = false), 250) fires.
AvoidScrollingTimeout ==
  /\ \E t \in avoidTimers :
       /\ t <= clock
       /\ avoidTimers' = avoidTimers \ {t}
  /\ avoidScrolling' = FALSE
  /\ UNCHANGED <<acVars, gpVars, glVars, fmtVars, rdVars, clock, hover, scrollLog, acMounted,
                 statusTimer, statusCalls, previousResultCount, statusLog, evLog>>

\* An arrow key on the input, and the componentDidUpdate that follows.
ArrowKeyThenUpdate(amount) ==
  /\ moveHighlightedIndex(amount, [type |-> IF amount > 0 THEN "keyDownArrowDown"
                                            ELSE "keyDownArrowUp"])
  /\ UNCHANGED <<clock, avoidScrolling, avoidTimers, hover, acMounted, statusTimer,
                 statusCalls, previousResultCount, statusLog, evLog>>
  /\ scrollHighlightedItemIntoView
  /\ acKeep

\* Time passes; a due timer fires before the clock moves on.
ClockTick ==
  /\ clock < MaxClock
  /\ \A t \in avoidTimers : t > clock
  /\ statusTimer = NoTimer \/ statusTimer > clock
  /\ clock' = clock + 1
  /\ UNCHANGED <<acVars, gpVars, glVars, fmtVars, rdVars, avoidScrolling, avoidTimers, hover,
                 scrollLog, acMounted, statusTimer, statusCalls, previousResultCount,
                 statusLog, evLog>>

uiIdle ==
  /\ clock = 0
  /\ avoidScrolling = FALSE
  /\ avoidTimers = {}
  /\ hover = [at |-> -1, index |-> NullIndex]
  /\ scrollLog = [at |-> -1, sinceHover |-> -1, scrolled |-> FALSE]
  /\ acMounted = TRUE
  /\ statusTimer = NoTimer
  /\ statusCalls = <<>>
  /\ previousResultCount = 0
  /\ statusLog = [at |-> -1, message |-> "", calls |-> <<>>]
  /\ evLog = [handler |-> "none", caller |-> "none", ran |-> <<>>]

fmtIdle == fmt = [text |-> <<>>, offset |-> 0, length |-> 0, formatted |-> <<>>]

(***************************************************************************)
(* Autocomplete: the accessibility attributes of the input                 *)
(***************************************************************************)
\* defaultProps.id: generateId('autocomplete')
defaultId == "autocomplete-1"

\* The value of an attribute that is not set.
NullAttribute == "null"

\* getItemId: `${this.props.id}-item-${index}`
getItemId(index) == defaultId \o "-item-" \o ToString(index)

getInputPropsIgnoringOpen ==
  [ariaExpanded |-> getState(state).isOpen,
   ariaActivedescendant |->
     IF getState(state).highlightedIndex >= 0
     THEN getItemId(getState(state).highlightedIndex)
     ELSE NullAttribute]

\* getInputProps: aria-expanded and aria-activedescendant; a null
\* highlightedIndex is no number.
getInputProps ==
  [ariaExpanded |-> getState(state).isOpen,
   ariaActivedescendant |->
     IF /\ getState(state).isOpen
        /\ getState(state).highlightedIndex # NullIndex
        /\ getState(state).highlightedIndex >= 0
     THEN getItemId(getState(state).highlightedIndex)
     ELSE NullAttribute]

(***************************************************************************)
(* Autocomplete: the debounced status announcer                            *)
(***************************************************************************)
\* The delay of updateStatus (200 ms), in ticks of 100 ms.
statusWait == 2

\* The most calls of updateStatus that one burst is followed through.
MaxCalls == 2

\* utils.debounce(fn, time): a call clears the pending timer and sets a new
\* one, `time` after the call.
debounceStatusKeepingTimer(t) ==
  IF statusTimer # NoTimer THEN statusTimer ELSE t + statusWait

debounceStatus(t) == t + statusWait

\* `${resultCount} result(s) is/are available, ...`
resultCountMessage(resultCount) ==
  ToString(resultCount)
  \o (IF resultCount = 1 THEN " result is" ELSE " results are")
  \o " available, use up and down arrow keys to navigate."

\* utils.getA11yStatusMessage; highlightedItem is falsy only for null and
\* undefined.
getA11yStatusMessage(isOpen, highlightedItem, selectedItem, resultCount, prevCount) ==
  IF ~isOpen
  THEN (IF selectedItem \notin {NullItem, UndefinedItem}
        THEN itemToString(selectedItem) ELSE "")
  ELSE IF resultCount = 0 THEN "No results."
  ELSE IF highlightedItem \in {NullItem, UndefinedItem} \/ resultCount # prevCount
  THEN resultCountMessage(resultCount)
  ELSE itemToString(highlightedItem)

\* updateStatus passes this.items[state.highlightedIndex] || {}
highlightedItemOrEmpty ==
  IF itemAt(getState(state).highlightedIndex) = UndefinedItem
  THEN EmptyObject
  ELSE itemAt(getState(state).highlightedIndex)

\* componentDidUpdate calls updateStatus after every update and re-render.
componentDidUpdateStatus(updated) ==
  IF updated
  THEN /\ statusTimer' = debounceStatus(clock)
       /\ statusCalls' = Append(statusCalls, clock)
  ELSE UNCHANGED <<statusTimer, statusCalls>>

\* An event handler of the mounted component, and the componentDidUpdate
\* that follows when it has updated the state.
HandlerThenUpdate(handler) ==
  /\ acMounted
  /\ Len(statusCalls) < MaxCalls
  /\ handler
  /\ componentDidUpdateStatus(notes' # <<>>)
  /\ acKeep
  /\ UNCHANGED <<clock, avoidScrolling, avoidTimers, hover, scrollLog, acMounted,
                 previousResultCount, statusLog, evLog>>

TypeThenUpdate(value) ==
  HandlerThenUpdate(
    internalSetState([type |-> "changeInput", isOpen |-> TRUE, inputValue |-> value],
                     "noop", "input_handleChange", value))

ArrowDownThenUpdate ==
  HandlerThenUpdate(moveHighlightedIndex(1, [type |-> "keyDownArrowDown"]))

EnterThenUpdate ==
  HandlerThenUpdate(IF getState(state).isOpen
                    THEN selectHighlightedItem([type |-> "keyDownEnter"])
                    ELSE NoUpdate("Enter", "keyDownEnter", "none"))

\* A render pass with n items, and the componentDidUpdate that follows.
RenderThenUpdate(n) ==
  /\ acMounted
  /\ Len(statusCalls) < MaxCalls
  /\ n # Len(items)
  /\ items' = SubSeq(AllItems, 1, n)
  /\ NoUpdate("render", "none", "none")
  /\ componentDidUpdateStatus(TRUE)
  /\ UNCHANGED <<controlled, props, itemCount, isMouseDown, gpVars, glVars, fmtVars, rdVars,
                 clock, avoidScrolling, avoidTimers, hover, scrollLog, acMounted,
                 previousResultCount, statusLog, evLog>>

\* componentWillUnmount: cleanup sets _isMounted = false
Unmount ==
  /\ acMounted
  /\ acMounted' = FALSE
  /\ UNCHANGED <<acVars, gpVars, glVars, fmtVars, rdVars, clock, avoidScrolling, avoidTimers,
                 hover, scrollLog, statusTimer, statusCalls, previousResultCount,
                 statusLog, evLog>>

\* The timer of updateStatus fires: the debounced body runs.
updateStatus ==
  /\ statusTimer # NoTimer
  /\ statusTimer <= clock
  /\ statusTimer' = NoTimer
  /\ statusCalls' = <<>>
  /\ IF ~acMounted
     THEN UNCHANGED <<previousResultCount, statusLog>>
     ELSE /\ statusLog' =
               [at |-> clock,
                message |-> getA11yStatusMessage(getState(state).isOpen,
                                                 highlightedItemOrEmpty,
                                                 getState(state).selectedItem,
                                                 getItemCount, previousResultCount),
                calls |-> statusCalls]
          /\ previousResultCount' = getItemCount
  /\ UNCHANGED <<acVars, gpVars, glVars, fmtVars, rdVars, clock, avoidScrolling, avoidTimers,
                 hover, scrollLog, acMounted, evLog>>

statusNext ==
  \/ \E value \in TypedTexts : TypeThenUpdate(value)
  \/ ArrowDownThenUpdate
  \/ EnterThenUpdate
  \/ \E n \in 0..MaxItems : RenderThenUpdate(n)
  \/ Unmount
  \/ updateStatus
  \/ ClockTick

(***************************************************************************)
(* Autocomplete: the composed event handlers of the prop-getters           *)
(***************************************************************************)
\* The handler a caller passes to a prop-getter: none, one that leaves the
\* event alone, one that calls event.preventDefault().
CallerHandlers == {"none", "plain", "preventing"}

\* composeEventHandlers(caller, machine): fns.some(fn => { fn && fn(event);
\* return event.defaultPrevented }) on an event that arrives with its
\* default not prevented. The machine's handler is reached when the
\* caller's handler did not stop the iteration.
machineRunsAlways(caller) == TRUE

machineRuns(caller) == caller # "preventing"

\* The handlers the composed handler runs, in order.
composeEventHandlers(caller) ==
  (IF caller # "none" THEN <<"caller">> ELSE <<>>)
  \o (IF machineRuns(caller) THEN <<"machine">> ELSE <<>>)

\* An event on an element that carries the composed handler `handler`;
\* `machine` is the machine's own handler.
Dispatch(handler, caller, machine) ==
  /\ evLog' = [handler |-> handler, caller |-> caller, ran |-> composeEventHandlers(caller)]
  /\ IF machineRuns(caller) THEN machine ELSE NoUpdate("prevented", handler, "none")
  /\ acKeep
  /\ UNCHANGED <<clock, avoidScrolling, avoidTimers, hover, scrollLog, acMounted,
                 statusTimer, statusCalls, previousResultCount, statusLog>>

\* getInputProps: onFocus, onChange, onKeyDown, onBlur
InputOnFocus(caller) ==
  Dispatch("input.onFocus", caller,
           internalSetState([type |-> "focusInput",
                             isOpen |-> Len(getState(state).inputValue) > 0],
                            "noop", "input_handleFocus", "none"))

InputOnChange(caller, value) ==
  Dispatch("input.onChange", caller,
           internalSetState([type |-> "changeInput", isOpen |-> TRUE, inputValue |-> value],
                            "noop", "input_handleChange", value))

InputOnKeyDown(caller, key) ==
  Dispatch("input.onKeyDown", caller,
           CASE key = "ArrowDown" -> moveHighlightedIndex(1, [type |-> "keyDownArrowDown"])
             [] key = "Enter" ->
                  IF getState(state).isOpen
                  THEN selectHighlightedItem([type |-> "keyDownEnter"])
                  ELSE NoUpdate("Enter", "keyDownEnter", "none")
             [] key = "Escape" -> reset([type |-> "keyDownEscape"], "noop", "none"))

InputOnBlur(caller) ==
  Dispatch("input.onBlur", caller,
           IF ~isMouseDown
           THEN reset([type |-> "blurInput"], "noop", "none")
           ELSE NoUpdate("input_handleBlur", "blurInput", "none"))

\* getButtonProps: onClick, onKeyDown
ButtonOnClick(caller) ==
  Dispatch("button.onClick", caller, toggleMenu([type |-> "clickButton"]))

ButtonOnKeyDown(caller) ==
  Dispatch("button.onKeyDown", caller, toggleMenu([type |-> "keyDownSpaceButton"]))

\* getItemProps: onMouseEnter, onClick
ItemOnMouseEnter(caller, index) ==
  /\ index < Len(items)
  /\ Dispatch("item.onMouseEnter", caller,
              setHighlightedIndex(index, [type |-> "itemMouseEnter"],
                                  "setHighlightedIndex", "none"))

ItemOnClick(caller, index) ==
  /\ index < Len(items)
  /\ Dispatch("item.onClick", caller, selectItemAtIndex(index, <<>>))

handlersNext ==
  \/ \E caller \in CallerHandlers : InputOnFocus(caller)
  \/ \E caller \in CallerHandlers : \E value \in TypedTexts : InputOnChange(caller, value)
  \/ \E caller \in CallerHandlers : \E key \in {"ArrowDown", "Enter", "Escape"} :
       InputOnKeyDown(caller, key)
  \/ \E caller \in CallerHandlers : InputOnBlur(caller)
  \/ \E caller \in CallerHandlers : ButtonOnClick(caller)
  \/ \E caller \in CallerHandlers : ButtonOnKeyDown(caller)
  \/ \E caller \in CallerHandlers : \E index \in 0..(MaxItems - 1) :
       ItemOnMouseEnter(caller, index)
  \/ \E caller \in CallerHandlers : \E index \in 0..(MaxItems - 1) :
       ItemOnClick(caller, index)
  \/ \E n \in 0..MaxItems : Render(n)

(***************************************************************************)
(* Autocomplete: the caller's item count and the render pass               *)
(***************************************************************************)
rdIdle ==
  /\ propsItemCount = UndefinedCount
  /\ getRootPropsCalled = FALSE
  /\ renderLog = [element |-> "none", calls |-> FALSE, calledBefore |-> FALSE,
                  threw |-> FALSE, pos |-> NullIndex]
  /\ itemIds = <<>>

\* The caller re-renders with another itemCount prop (or none).
SupplyItemCount(count) ==
  /\ count # propsItemCount
  /\ propsItemCount' = count
  /\ NoUpdate("parentRender", "none", "none")
  /\ UNCHANGED <<controlled, props, items, itemCount, isMouseDown, gpVars, glVars,
                 uiVars, fmtVars, getRootPropsCalled, renderLog, itemIds>>

countNext ==
  \/ \E count \in {UndefinedCount} \cup 0..MaxItems : SupplyItemCount(count)
  \/ \E count \in 0..MaxItems : setItemCount(count)
  \/ unsetItemCount
  \/ \E n \in 0..MaxItems : Render(n)
  \/ \E shiftKey \in BOOLEAN : KeyDownArrowDown(shiftKey)
  \/ \E shiftKey \in BOOLEAN : KeyDownArrowUp(shiftKey)
  \/ \E value \in TypedTexts : input_handleChange(value)

\* What the render callback can return: nothing, a DOM element, an element
\* of a custom component.
Elements == {"null", "dom", "composite"}

\* The most items a render pass registers, and the item values it passes.
MaxRendered == 2
RenderValues == {"A", "B"}

\* The item sequences a render callback can pass to getItemProps.
RECURSIVE ItemSeqs(_)
ItemSeqs(n) ==
  IF n = 0 THEN {<<>>}
  ELSE ItemSeqs(n - 1)
       \cup {Append(q, item) : q \in {r \in ItemSeqs(n - 1) : Len(r) = n - 1},
                               item \in RenderValues}

\* Array.prototype.indexOf: the JS index of the first occurrence
indexOf(array, item) ==
  (CHOOSE i \in 1..Len(array) :
     array[i] = item /\ \A j \in 1..(i - 1) : array[j] # item) - 1

\* render: this.getRootProps.called = false before the callback runs
calledAtRenderStartKept == getRootPropsCalled

calledAtRenderStart == FALSE

\* render: the error of a custom component without getRootProps
renderThrows(element, called) ==
  element # "null" /\ ~called /\ element # "dom"

\* A render pass: clearItems, the callback registers the items of seq through
\* getItemProps({item}) and calls getRootProps or not, and returns element.
RenderPass(element, callsRootProps, seq) ==
  /\ ~renderLog.threw
  /\ items' = seq
  /\ itemIds' = [k \in 1..Len(seq) |-> indexOf(SubSeq(seq, 1, k), seq[k])]
  /\ LET called == calledAtRenderStart \/ callsRootProps
     IN /\ renderLog' = [element |-> element, calls |-> callsRootProps,
                         calledBefore |-> getRootPropsCalled,
                         threw |-> renderThrows(element, called), pos |-> NullIndex]
        \* a DOM element without root props: render calls getRootProps itself
        /\ getRootPropsCalled' = (called \/ element = "dom")
  /\ NoUpdate("render", "none", "none")
  /\ UNCHANGED <<controlled, props, itemCount, isMouseDown, gpVars, glVars,
                 uiVars, fmtVars, propsItemCount>>

\* getItemProps(...).onMouseEnter of the k-th item of the render pass
RenderedItemMouseEnter(k) ==
  /\ ~renderLog.threw
  /\ k \in 1..Len(itemIds)
  /\ setHighlightedIndex(itemIds[k], [type |-> "itemMouseEnter"],
                         "setHighlightedIndex", "none")
  /\ renderLog' = [renderLog EXCEPT !.pos = k - 1]
  /\ UNCHANGED <<controlled, props, items, itemCount, isMouseDown, gpVars, glVars,
                 uiVars, fmtVars, propsItemCount, getRootPropsCalled, itemIds>>

\* getItemProps(...).onClick of the k-th item of the render pass
RenderedItemClick(k) ==
  /\ ~renderLog.threw
  /\ k \in 1..Len(itemIds)
  /\ selectItemAtIndex(itemIds[k], <<>>)
  /\ renderLog' = [renderLog EXCEPT !.pos = k - 1]
  /\ UNCHANGED <<controlled, props, items, itemCount, isMouseDown, gpVars, glVars,
                 uiVars, fmtVars, propsItemCount, getRootPropsCalled, itemIds>>

renderNext ==
  \/ \E element \in Elements : \E callsRootProps \in BOOLEAN :
       \E seq \in ItemSeqs(MaxRendered) : RenderPass(element, callsRootProps, seq)
  \/ \E k \in 1..MaxRendered : RenderedItemMouseEnter(k)
  \/ \E k \in 1..MaxRendered : RenderedItemClick(k)

(***************************************************************************)
(* GooglePredictions: formatPredictions                                    *)
(***************************************************************************)
\* A text is a sequence of characters; the formatted text also holds the
\* markup tokens "<b>" and "</b>".
MaxText == 3
Letters == {"a", "b"}
Texts == UNION {[1..n -> Letters] : n \in 1..MaxText}

\* String.prototype.substr(offset, length), offset counted from 0
substr(text, offset, length) ==
  SubSeq(text, offset + 1, IF offset + length > Len(text) THEN Len(text)
                           ELSE offset + length)

\* text.replace(new RegExp(match, 'g'), m => `<b>${m}</b>`) from position i
\* on: every occurrence of the matched substring, left to right and not
\* overlapping, is wrapped. (The replacer's includes() test reads the text
\* before the replacement, which holds no markup, so it always wraps.)
RECURSIVE replaceAll(_, _, _)
replaceAll(text, match, i) ==
  IF i > Len(text) THEN <<>>
  ELSE IF i + Len(match) - 1 <= Len(text)
          /\ SubSeq(text, i, i + Len(match) - 1) = match
  THEN <<"<b>">> \o match \o <<"</b>">> \o replaceAll(text, match, i + Len(match))
  ELSE <<text[i]>> \o replaceAll(text, match, i + 1)

\* formatPredictions for one text with one matched substring
formatPredictions(text, offset, length) ==
  replaceAll(text, substr(text, offset, length), 1)

\* A prediction arrives and is formatted.
FormatPrediction ==
  /\ fmt.formatted = <<>>
  /\ fmt' = [fmt EXCEPT !.formatted = formatPredictions(fmt.text, fmt.offset, fmt.length)]
  /\ UNCHANGED <<acVars, gpVars, glVars, uiVars, rdVars>>

\* The predictions of the external API: a text and a matched substring
\* (offset, length) that lies within it.
fmtInit ==
  \E text \in Texts :
    \E offset \in 0..(Len(text) - 1) :
      \E length \in 1..(Len(text) - offset) :
        fmt = [text |-> text, offset |-> offset, length |-> length, formatted |-> <<>>]

fmtNext == FormatPrediction

scrollNext ==
  \/ \E index \in 0..(MaxItems - 1) : HoverItem(index)
  \/ AvoidScrollingTimeout
  \/ \E amount \in MoveAmounts : ArrowKeyThenUpdate(amount)
  \/ \E value \in TypedTexts : input_handleChange(value)
  \/ \E n \in 0..MaxItems : Render(n)
  \/ ClockTick

(***************************************************************************)
(* Specifications                                                          *)
(***************************************************************************)
acIdle ==
  /\ controlled = {}
  /\ props = Merge(defaultProps, [defaultHighlightedIndex |-> NullIndex])
  /\ state = defaultProps
  /\ items = <<>>
  /\ itemCount = NullIndex
  /\ isMouseDown = FALSE
  /\ notes = <<>>
  /\ last = [op |-> "constructor", type |-> "none", threw |-> FALSE, arg |-> "none"]

\* The combobox the way GoogleAutocomplete uses it: no controlled prop.
Init == acInit({{}}) /\ gpIdle /\ glIdle /\ uiIdle /\ fmtIdle /\ rdIdle
Next == acNext
Spec == Init /\ [][Next]_vars

\* The combobox with at most one controlled prop.
InitControlled == acInit(ControlledSets) /\ gpIdle /\ glIdle /\ uiIdle /\ fmtIdle /\ rdIdle
SpecControlled == InitControlled /\ [][acNextControlled]_vars

\* The prediction fetcher.
InitPredictions == gpInit /\ acIdle /\ glIdle /\ uiIdle /\ fmtIdle /\ rdIdle
SpecPredictions == InitPredictions /\ [][gpNext]_vars

\* The script loader.
InitLoader == glInit /\ acIdle /\ gpIdle /\ uiIdle /\ fmtIdle /\ rdIdle
SpecLoader == InitLoader /\ [][glNext]_vars

\* Hovering and scrolling: an uncontrolled combobox with a clock.
InitScroll == acInit({{}}) /\ gpIdle /\ glIdle /\ uiIdle /\ fmtIdle /\ rdIdle
SpecScroll == InitScroll /\ [][scrollNext]_vars

\* The status announcer of an uncontrolled combobox, with a clock.
InitStatus == acInit({{}}) /\ gpIdle /\ glIdle /\ uiIdle /\ fmtIdle /\ rdIdle
SpecStatus == InitStatus /\ [][statusNext]_vars

\* The prop-getters' composed handlers on an uncontrolled combobox.
InitHandlers == acInit({{}}) /\ gpIdle /\ glIdle /\ uiIdle /\ fmtIdle /\ rdIdle
SpecHandlers == InitHandlers /\ [][handlersNext]_vars

\* The item count: override, caller's total, registered items.
InitCount == acInit({{}}) /\ gpIdle /\ glIdle /\ uiIdle /\ fmtIdle /\ rdIdle
SpecCount == InitCount /\ [][countNext]_vars

\* Render passes of an uncontrolled combobox.
InitRender == acInit({{}}) /\ gpIdle /\ glIdle /\ uiIdle /\ fmtIdle /\ rdIdle
SpecRender == InitRender /\ [][renderNext]_vars

\* The formatting of predictions.
InitFormat == fmtInit /\ acIdle /\ gpIdle /\ glIdle /\ uiIdle /\ rdIdle
SpecFormat == InitFormat /\ [][fmtNext]_vars

(***************************************************************************)
(* Properties of the combobox                                              *)
(***************************************************************************)
\* The positions in notes of the state-changed notifications that carry k.
Reports(k) ==
  {i \in 1..Len(notes) : notes[i].n = "onStateChange" /\ k \in DOMAIN notes[i].v}

\* The value of field k the last handler arrived at: the stored value of an
\* uncontrolled field; for a controlled field the value last reported to the
\* caller, or the caller's value when the handler reported none.
Outcome(k) ==
  IF ~isControlledProp(k) THEN state[k]
  ELSE IF Reports(k) = {} THEN props[k]
  ELSE notes[CHOOSE i \in Reports(k) : \A j \in Reports(k) : j <= i].v[k]

\* C1: after every Down-arrow / Up-arrow move (step 1 or 5) made while the
\* list is open and itemCount > 0, the highlighted index is in [0, itemCount).
C1_MoveStaysInRange ==
  (last.op = "changeHighlightedIndex" /\ getItemCount > 0)
    => getState(state).highlightedIndex \in 0..(getItemCount - 1)

C1_Witness ==
  /\ last.op = "changeHighlightedIndex"
  /\ last.type = "keyDownArrowUp"
  /\ getItemCount = MaxItems
  /\ state.highlightedIndex = MaxItems - 1
  /\ state.isOpen

\* C2: selecting an item x (selectItem, a click on a list item, Enter on the
\* highlighted item) results in isOpen = false, inputValue = itemToString(x)
\* and selectedItem = x.
C2_SelectClosesAndFills ==
  (last.op = "selectItem" /\ last.arg \in ItemSet)
    => /\ ~last.threw
       /\ Outcome("isOpen") = FALSE
       /\ Outcome("inputValue") = itemToString(last.arg)
       /\ Outcome("selectedItem") = last.arg

\* C3: Escape, and a blur of the input while no pointer button is held,
\* result in isOpen = false, inputValue = itemToString(selectedItem) ('' when
\* nothing is selected) and highlightedIndex = the default highlighted index;
\* a blur skips the reset only while a pointer button is held.
C3_EscapeAndBlurReset ==
  /\ (last.op = "reset" /\ last.type \in {"keyDownEscape", "blurInput"})
       => /\ Outcome("isOpen") = FALSE
          /\ Outcome("inputValue") = itemToString(getState(state).selectedItem)
          /\ Outcome("highlightedIndex") = props.defaultHighlightedIndex
          /\ (getState(state).selectedItem = NullItem => Outcome("inputValue") = "")
  /\ last.type = "keyDownEscape" => last.op = "reset"
  /\ (last.type = "blurInput" /\ last.op # "reset") => isMouseDown

C3_Witness ==
  /\ last.op = "reset"
  /\ last.type = "blurInput"
  /\ state.selectedItem = "B"
  /\ Reports("inputValue") # {}
  /\ Reports("isOpen") # {}
  /\ state.inputValue = "Berlin"
  /\ controlled = {}

\* C4: an update that targets a controlled field leaves the internally
\* stored value of that field unchanged; the new value is only reported,
\* through the state-changed notification.
C4_ControlledNotStored ==
  /\ [][\A k \in controlled : state'[k] = state[k]]_vars
  /\ [](("inputValue" \in controlled /\ last.op = "input_handleChange"
           /\ last.arg # props.inputValue)
          => /\ Reports("inputValue") # {}
             /\ Outcome("inputValue") = last.arg)

C4_Witness ==
  /\ controlled = {"inputValue"}
  /\ last.op = "input_handleChange"
  /\ last.arg = "be"
  /\ props.inputValue = ""
  /\ state.inputValue = ""
  /\ Outcome("inputValue") = "be"

\* C10 (as claimed): a mouse-up outside the root (or on the root node) while
\* the list is open resets like Escape: isOpen false, highlightedIndex the
\* default, inputValue the string form of the selected item; then the
\* outer-click notification fires.
C10_OuterClickResetsLikeEscape ==
  (last.type = "mouseUp" /\ last.arg = "outside" /\ last.op = "reset")
    => /\ Outcome("isOpen") = FALSE
       /\ Outcome("highlightedIndex") = props.defaultHighlightedIndex
       /\ Outcome("inputValue") = itemToString(getState(state).selectedItem)

\* C10 (amended): a mouse-up outside the root (or on the root node) while the
\* list is open sets isOpen false and highlightedIndex to the default and
\* leaves inputValue at its current text; the outer-click notification fires
\* after the state has been committed. No other mouse-up changes the state.
C10_OuterClickKeepsInput ==
  /\ [][(last'.type = "mouseUp" /\ last'.arg = "outside" /\ getState(state).isOpen)
          => /\ last'.op = "reset"
             /\ Outcome("isOpen")' = FALSE
             /\ Outcome("highlightedIndex")' = props.defaultHighlightedIndex
             /\ Outcome("inputValue")' = getState(state).inputValue
             /\ \E i, j \in 1..Len(notes') :
                  /\ i < j
                  /\ notes'[i].n = "setState"
                  /\ notes'[j] = Note("cb", "onOuterClick")]_vars
  /\ [][(last'.type = "mouseUp"
           /\ ~(last'.arg = "outside" /\ getState(state).isOpen))
          => (state' = state /\ notes' = <<>>)]_vars

C10_Witness ==
  /\ last.type = "mouseUp"
  /\ last.op = "reset"
  /\ state.inputValue = "be"
  /\ state.selectedItem = "A"
  /\ ~state.isOpen
  /\ controlled = {}
  /\ Reports("isOpen") # {}

\* C11: in every reachable state the highlighted index read through the
\* component state is none or within [0, itemCount): it is never left
\* dangling, also after the item count shrinks, after a hover, and with a
\* default highlighted index configured.
C11_HighlightNeverDangling ==
  \/ getState(state).highlightedIndex = NullIndex
  \/ getState(state).highlightedIndex \in 0..(getItemCount - 1)

\* C12: while the list is open with itemCount > 0 a move wraps at both ends:
\* up from index 0 gives the last index, down from the last index gives 0; a
\* move of +-1 or +-5 whose target is below 0 gives the last index and whose
\* target is above the last index gives 0, any other target is taken as it
\* is; from no highlight, down by 1 gives 0 and up by 1 gives the last index.
C12_MovesWrap ==
  [][\A a \in MoveAmounts :
       (/\ last'.op = "changeHighlightedIndex"
        /\ last'.arg = AmountName(a)
        /\ getItemCount > 0)
       => LET h == state.highlightedIndex
              lastIndex == getItemCount - 1
              h2 == state'.highlightedIndex
          IN /\ state.isOpen
             /\ (h = 0 /\ a < 0) => h2 = lastIndex
             /\ (h = lastIndex /\ a > 0) => h2 = 0
             /\ (h # NullIndex /\ h + a < 0) => h2 = lastIndex
             /\ (h # NullIndex /\ h + a > lastIndex) => h2 = 0
             /\ (h # NullIndex /\ h + a \in 0..lastIndex) => h2 = h + a
             /\ (h = NullIndex /\ a = 1) => h2 = 0
             /\ (h = NullIndex /\ a = -1) => h2 = lastIndex]_vars

C12_Witness ==
  /\ last.op = "changeHighlightedIndex"
  /\ last.arg = "+5"
  /\ last.type = "keyDownArrowDown"
  /\ getItemCount = MaxItems
  /\ itemCount = MaxItems
  /\ state.highlightedIndex = 0
  /\ state.isOpen

\* C13: Down-arrow or Up-arrow pressed while the list is closed, with or
\* without Shift, opens the list and sets the highlighted index to the
\* default highlighted index, never to an index derived from the move amount.
C13_ArrowWhileClosedOpensAtDefault ==
  [][(/\ last'.type \in {"keyDownArrowDown", "keyDownArrowUp"}
      /\ ~getState(state).isOpen)
     => /\ last'.op = "openAndHighlightDefaultIndex"
        /\ Outcome("isOpen")' = TRUE
        /\ Outcome("highlightedIndex")' = props.defaultHighlightedIndex]_vars

C13_Witness ==
  /\ last.op = "openAndHighlightDefaultIndex"
  /\ last.type = "keyDownArrowDown"
  /\ controlled = {}
  /\ props.defaultHighlightedIndex = NullIndex
  /\ Len(items) = MaxItems
  /\ state.isOpen
  /\ state.highlightedIndex = NullIndex
  /\ Reports("isOpen") # {}

\* The place of a notification in the order of one update.
Rank(n) ==
  CASE n = "onInputValueChange" -> 1
    [] n = "setState" -> 2
    [] n = "cb" -> 3
    [] n = "onStateChange" -> 4
    [] n = "onSelect" -> 5
    [] n = "onChange" -> 6

\* The update (first, second, ...) of the last handler that fired notes[i]:
\* an update starts at its input-value-changed notification, or at its
\* commit when it has none.
UpdateOf(i) ==
  Cardinality({j \in 1..i : notes[j].n = "setState"})
    + (IF notes[i].n = "onInputValueChange" THEN 1 ELSE 0)

\* C14: within each update of the state update primitive the side effects
\* come in this order: the input-value-changed notification, the commit to
\* storage, the completion callback, the state-changed notification, the
\* selection notification, the change notification.
C14_NotificationOrder ==
  /\ \A i \in 1..Len(notes) :
       /\ UpdateOf(i) >= 1
       /\ notes[i].n = "setState" => (i < Len(notes) /\ notes[i + 1].n = "cb")
       /\ notes[i].n = "cb" => (i > 1 /\ notes[i - 1].n = "setState")
  /\ \A i, j \in 1..Len(notes) :
       (i < j /\ UpdateOf(i) = UpdateOf(j)) => Rank(notes[i].n) < Rank(notes[j].n)

C14_Witness ==
  /\ last.op = "selectItem"
  /\ Len(notes) = 6
  /\ notes[1].n = "onInputValueChange"
  /\ notes[6] = Note("onChange", "B")

\* C15: the change notification fires for an update if and only if the
\* selected item after the update differs from the one before it, and it
\* carries the new value, also when the selection changes to none or to an
\* absent item.
C15_ChangeFiresIffSelectionChanged ==
  [][last'.op # "toggleMenu"
     => /\ (state'.selectedItem # state.selectedItem)
             <=> (\E i \in 1..Len(notes') : notes'[i].n = "onChange")
        /\ \A i \in 1..Len(notes') :
             notes'[i].n = "onChange" => notes'[i].v = state'.selectedItem]_vars

\* The selection notifications of the last handler.
Selections == {i \in 1..Len(notes) : notes[i].n = "onSelect"}

\* C16: an update with a selectedItem key (selectItem, clearSelection) fires
\* the selection notification exactly once with the new selected item, even
\* when it equals the item selected before; no other update fires it.
C16_SelectFiresOncePerSelection ==
  /\ (last.op = "selectItem" /\ ~last.threw)
       => /\ Cardinality(Selections) = 1
          /\ \A i \in Selections : notes[i].v = last.arg
  /\ last.op = "clearSelection"
       => /\ Cardinality(Selections) = 1
          /\ \A i \in Selections : notes[i].v = NullItem
  /\ (last.op \notin {"selectItem", "clearSelection"} \/ last.threw)
       => Selections = {}

C16_Witness ==
  /\ last.op = "clearSelection"
  /\ Cardinality(Selections) = 1
  /\ \A i \in 1..Len(notes) : notes[i].n # "onChange"
  /\ getState(state).selectedItem = NullItem

\* C17: the state-changed notification fires for an update if and only if a
\* field other than the type tag differs from the resolved state (the prop
\* of a controlled field, the stored value otherwise), and its payload holds
\* exactly the changed keys and the type tag.
C17_StateChangeCarriesChangedKeys ==
  [][last'.op # "toggleMenu"
     => LET stored == StateKeys \ controlled
            changedStored == {k \in stored : state'[k] # state[k]}
            fired == {i \in 1..Len(notes') : notes'[i].n = "onStateChange"}
        IN /\ Cardinality(fired) <= 1
           /\ changedStored # {} => fired # {}
           /\ \A i \in fired :
                LET payload == notes'[i].v
                IN /\ "type" \in DOMAIN payload
                   /\ payload.type = last'.type
                   /\ DOMAIN payload # {"type"}
                   /\ DOMAIN payload \cap stored = changedStored
                   /\ \A k \in changedStored : payload[k] = state'[k]
                   /\ \A k \in DOMAIN payload \cap controlled : payload[k] # props'[k]
           \* an update to a controlled field: typing sets isOpen and inputValue
           /\ last'.op = "input_handleChange"
                => /\ ("isOpen" \in controlled /\ ~props.isOpen)
                        => \E i \in fired : notes'[i].v.isOpen = TRUE
                   /\ ("isOpen" \in controlled /\ props.isOpen)
                        => \A i \in fired : "isOpen" \notin DOMAIN notes'[i].v
                   /\ "inputValue" \in controlled
                        => ((last'.arg # props.inputValue)
                             <=> (\E i \in fired : "inputValue" \in DOMAIN notes'[i].v))]_vars

C17_Witness ==
  /\ last.op = "reset"
  /\ last.type = "keyDownEscape"
  /\ controlled = {}
  /\ \E i \in 1..Len(notes) :
       /\ notes[i].n = "onStateChange"
       /\ DOMAIN notes[i].v = {"type", "isOpen"}
  /\ state.highlightedIndex = NullIndex
  /\ state.inputValue = "Berlin"

C19_BlurDuringPressThenClickSelects ==
  [][/\ (last'.type = "blurInput" /\ isMouseDown)
          => (state' = state /\ notes' = <<>>)
     /\ (last'.type = "mouseUp" /\ last'.arg = "inside")
          => (state' = state /\ notes' = <<>>)
     /\ (last'.op = "selectItem" /\ last'.type = "unknown" /\ last'.arg \in ItemSet)
          => /\ ~last'.threw
             /\ Outcome("selectedItem")' = last'.arg
             /\ Outcome("isOpen")' = FALSE]_vars

\* C20: Enter on the input while the list is open selects the item at the
\* highlighted index and closes the list; Enter while the list is closed
\* changes no state and fires no notification.
C20_EnterSelectsHighlighted ==
  [][last'.type = "keyDownEnter"
     => IF getState(state).isOpen
        THEN /\ last'.op = "selectItem"
             /\ ~last'.threw
             /\ Outcome("selectedItem")' = itemAt(getState(state).highlightedIndex)
             /\ Outcome("isOpen")' = FALSE
        ELSE state' = state /\ notes' = <<>>]_vars

\* C21: a hover sets the highlighted index to the position of the item, and
\* a highlight change made less than 250 ms after the last hover is not
\* scrolled into view, also when several hovers are less than 250 ms apart;
\* a highlight change made more than 250 ms after the last hover is.
C21_NoScrollAfterHover ==
  /\ last.type = "itemMouseEnter" => state.highlightedIndex = hover.index
  /\ (scrollLog.sinceHover # -1 /\ scrollLog.sinceHover < avoidDelay)
       => ~scrollLog.scrolled
  /\ (scrollLog.at # -1 /\ scrollLog.sinceHover > avoidDelay)
       => scrollLog.scrolled

\* C25: focusing the input while the input text is non-empty results in
\* isOpen = true.
C25_FocusWithTextOpens ==
  (last.op = "input_handleFocus" /\ Len(getState(state).inputValue) > 0)
    => Outcome("isOpen") = TRUE

C25_Witness ==
  /\ last.op = "input_handleFocus"
  /\ controlled = {}
  /\ state.inputValue = "Berlin"
  /\ state.isOpen
  /\ Reports("isOpen") # {}

\* C30: Down-arrow or Up-arrow pressed while the list is open and the item
\* count is zero changes no state field and fires no notification.
C30_ArrowWithNoItemsIsNoOp ==
  [][(/\ last'.type \in {"keyDownArrowDown", "keyDownArrowUp"}
      /\ state.isOpen
      /\ getItemCount = 0)
     => (state' = state /\ notes' = <<>>)]_vars

C30_Witness ==
  /\ last.op = "changeHighlightedIndex"
  /\ last.arg = "-1"
  /\ state.isOpen
  /\ getItemCount = 0
  /\ Len(items) = MaxItems
  /\ state.highlightedIndex = 1
  /\ notes = <<>>

\* C26: in every event handler a prop-getter returns, the caller's handler
\* runs before the machine's own handler, and the machine's handler runs if
\* and only if the caller's handler did not call for further handling to be
\* prevented; a prevented machine handler changes nothing.
C26_CallerFirstMachineUnlessPrevented ==
  /\ \A i, j \in 1..Len(evLog.ran) :
       (evLog.ran[i] = "caller" /\ evLog.ran[j] = "machine") => i < j
  /\ evLog.handler # "none"
       => /\ (evLog.caller # "none") <=> (\E i \in 1..Len(evLog.ran) : evLog.ran[i] = "caller")
          /\ (evLog.caller # "preventing")
               <=> (\E i \in 1..Len(evLog.ran) : evLog.ran[i] = "machine")
          /\ Len(evLog.ran) <= 2
  /\ last.op = "prevented"
       => (evLog.caller = "preventing" /\ notes = <<>> /\ last.type = evLog.handler)
  /\ (evLog.caller = "preventing" /\ last.op \notin {"render", "constructor"})
       => last.op = "prevented"

C26_Witness ==
  /\ evLog = [handler |-> "item.onClick", caller |-> "plain", ran |-> <<"caller", "machine">>]
  /\ last.op = "selectItem"
  /\ state.selectedItem = "B"
  /\ ~state.isOpen

\* C29: the input's aria-expanded equals isOpen, and its
\* aria-activedescendant is the id of the highlighted item
\* ("<id>-item-<index>") when the menu is open and an item is highlighted,
\* and absent otherwise.
C29_InputAriaAttributes ==
  /\ getInputProps.ariaExpanded = getState(state).isOpen
  /\ (getState(state).isOpen /\ getState(state).highlightedIndex \in 0..(MaxItems + 5))
       => getInputProps.ariaActivedescendant
            = "autocomplete-1-item-" \o ToString(getState(state).highlightedIndex)
  /\ (~getState(state).isOpen \/ getState(state).highlightedIndex = NullIndex)
       => getInputProps.ariaActivedescendant = NullAttribute

C29_Witness ==
  /\ getInputProps.ariaExpanded
  /\ getInputProps.ariaActivedescendant = "autocomplete-1-item-1"
  /\ "highlightedIndex" \in controlled
  /\ last.op = "changeHighlightedIndex"

\* C31: the item count used for navigation and announcements is the override
\* set through setItemCount when one is set, else the caller's itemCount when
\* supplied, else the number of items registered in the render pass;
\* unsetItemCount restores the fallback order; an arrow move lands below it.
C31_ItemCountPriority ==
  /\ itemCount # NullIndex => getItemCount = itemCount
  /\ (itemCount = NullIndex /\ propsItemCount # UndefinedCount)
       => getItemCount = propsItemCount
  /\ (itemCount = NullIndex /\ propsItemCount = UndefinedCount)
       => getItemCount = Len(items)
  /\ (last.op = "unsetItemCount" /\ propsItemCount # UndefinedCount)
       => getItemCount = propsItemCount
  /\ (last.op = "changeHighlightedIndex" /\ itemCount > 0)
       => state.highlightedIndex \in 0..(itemCount - 1)

C31_Witness ==
  /\ itemCount = 2
  /\ propsItemCount = 1
  /\ Len(items) = 0
  /\ last.op = "changeHighlightedIndex"
  /\ state.highlightedIndex = 1

\* C32: a render pass raises the configuration error exactly when the
\* callback returned a non-DOM element without calling getRootProps in that
\* pass; a call in an earlier pass does not suppress the error.
C32_RenderThrowsWithoutRootProps ==
  renderLog.threw <=> (renderLog.element = "composite" /\ ~renderLog.calls)

C32_Witness ==
  /\ renderLog.threw
  /\ renderLog.calledBefore
  /\ renderLog.element = "composite"

\* C39: in one render pass the getItemProps calls without an index get the
\* indices 0, 1, 2, ... in call order, and hovering or clicking the k-th
\* rendered item highlights or selects position k, also when an item value
\* is passed more than once.
C39_IndicesInCallOrder ==
  /\ \A k \in 1..Len(itemIds) : itemIds[k] = k - 1
  /\ (last.type = "itemMouseEnter" /\ renderLog.pos # NullIndex)
       => state.highlightedIndex = renderLog.pos

\* C33: with selectedItem controlled, selecting an item (selectItem, an item
\* click, Enter on the highlighted item) raises no error and reports
\* isOpen = false and the new selectedItem through onStateChange.
C33_ControlledSelectCompletes ==
  (last.op = "selectItem" /\ isControlledProp("selectedItem") /\ last.arg \in ItemSet)
    => /\ ~last.threw
       /\ \E i \in 1..Len(notes) :
            /\ notes[i].n = "onStateChange"
            /\ "selectedItem" \in DOMAIN notes[i].v
            /\ notes[i].v.selectedItem = last.arg

\* C36: Enter while the list is open and no item is highlighted (no
\* highlighted index, or an index with no registered item) leaves
\* selectedItem and inputValue unchanged and fires no selection notification.
C36_EnterWithoutHighlightSelectsNothing ==
  [][(/\ last'.type = "keyDownEnter"
      /\ state.isOpen
      /\ itemAt(state.highlightedIndex) = UndefinedItem)
     => /\ state'.selectedItem = state.selectedItem
        /\ state'.inputValue = state.inputValue
        /\ \A i \in 1..Len(notes') : notes'[i].n \notin {"onSelect", "onChange"}]_vars

\* C37 (as stated): focusing the input while the input text is empty changes
\* no state field; an open list stays open.
C37_FocusWithEmptyTextChangesNothing ==
  [][(last'.op = "input_handleFocus" /\ Len(getState(state).inputValue) = 0)
     => \A k \in StateKeys : Outcome(k)' = getState(state)[k]]_vars

\* C37 (amended): focusing the input while the input text is empty results
\* in isOpen = false and changes no other state field: an open list is closed.
C37_FocusWithEmptyTextCloses ==
  [][(last'.op = "input_handleFocus" /\ Len(getState(state).inputValue) = 0)
     => /\ Outcome("isOpen")' = FALSE
        /\ \A k \in StateKeys \ {"isOpen"} : Outcome(k)' = getState(state)[k]]_vars

C37_Witness ==
  /\ last.op = "input_handleFocus"
  /\ Len(state.inputValue) = 0
  /\ controlled = {}
  /\ Reports("isOpen") # {}
  /\ ~state.isOpen

\* C38: when the caller supplies a new value for a controlled selectedItem,
\* inputValue becomes itemToString(new value), and with the default
\* selectedItemChanged the synchronisation makes one update and then stops.
C38_ControlledSelectionSyncsInputOnce ==
  last.op = "componentDidUpdate"
    => /\ Outcome("inputValue") = itemToString(props.selectedItem)
       /\ last.arg = "1"

C38_Witness ==
  /\ last.op = "componentDidUpdate"
  /\ props.selectedItem = "B"
  /\ state.inputValue = "Berlin"
  /\ last.arg = "1"

\* C27: the message of a status update is: the empty string when closed
\* with no selection; the string form of the selection when closed with a
\* selection; "No results." when open with zero results; the result-count
\* announcement when open with results and either the count changed since
\* the last update or nothing is highlighted; otherwise the string form of
\* the highlighted item.
C27_StatusMessage ==
  [][statusLog' # statusLog
     => statusLog'.message =
          IF ~state.isOpen
          THEN (IF state.selectedItem \in {NullItem, UndefinedItem} THEN ""
                ELSE description[state.selectedItem])
          ELSE IF getItemCount = 0 THEN "No results."
          ELSE IF \/ getItemCount # previousResultCount
                  \/ itemAt(state.highlightedIndex) = UndefinedItem
          THEN resultCountMessage(getItemCount)
          ELSE description[itemAt(state.highlightedIndex)]]_vars

\* C28: calls of updateStatus less than 200 ms apart coalesce into one
\* status update, made 200 ms after the last call with the state current at
\* that time; no call stays queued, and no update is made when the component
\* has been unmounted by the time the timer fires.
C28_StatusDebounced ==
  [][/\ (statusCalls' # statusCalls /\ statusCalls' # <<>>)
          => statusTimer' = clock + statusWait
     /\ (statusTimer # NoTimer /\ statusTimer' = NoTimer)
          => /\ statusCalls # <<>>
             /\ clock = statusCalls[Len(statusCalls)] + statusWait
             /\ statusCalls' = <<>>
             /\ IF acMounted
                THEN /\ statusLog'.at = clock
                     /\ statusLog'.calls = statusCalls
                     /\ statusLog'.message =
                          getA11yStatusMessage(state.isOpen, highlightedItemOrEmpty,
                                               state.selectedItem, getItemCount,
                                               previousResultCount)
                ELSE statusLog' = statusLog /\ previousResultCount' = previousResultCount
     /\ statusLog' # statusLog => (statusTimer # NoTimer /\ statusTimer' = NoTimer)]_vars

C28_Witness ==
  /\ statusLog.at = 3
  /\ statusLog.calls = <<0, 1>>
  /\ statusLog.message = resultCountMessage(MaxItems)
  /\ statusTimer = NoTimer
  /\ state.inputValue = "be"

(***************************************************************************)
(* Properties of the prediction fetcher                                    *)
(***************************************************************************)
\* C34: when requests for q1 and then q2 are in flight together, once both
\* responses have arrived the stored predictions are those returned for q2,
\* the most recently issued query, whatever the order of arrival.
C34_LatestQueryWins ==
  (/\ requests = {}
   /\ Len(issued) >= 2
   /\ gpLast.op = "setState"
   /\ ~gpLast.unmounted
   /\ gp.error = "false")
    => gp.predictions = <<issued[Len(issued)]>>

\* C5: after the component is unmounted no prediction request is made and
\* no state write is attempted: no step of a torn-down component calls
\* getPlacePredictions or setState.
C5_NothingAfterUnmount ==
  ~(gpLast.unmounted /\ gpLast.op \in {"getPlacePredictions", "setState"})

\* C6 (as claimed): once a burst of query changes has ended on a query
\* longer than the threshold, exactly one call was made to the prediction
\* API, `wait` after the last change and with the final query.
C6_BurstGivesOneCall ==
  (lastChangeAt # -1 /\ Len(query) > threshold /\ now > lastChangeAt + wait)
    => burstCalls = <<[input |-> query, at |-> lastChangeAt + wait]>>

\* C6 (amended): the same, provided componentDidMount had resumed from its
\* await (the script had loaded) by the time of the last change and the
\* component is still mounted.
C6_BurstGivesOneCallWhenReady ==
  (/\ lastChangeAt # -1
   /\ Len(query) > threshold
   /\ now > lastChangeAt + wait
   /\ alive = "mounted"
   /\ readyAt # -1
   /\ readyAt <= lastChangeAt)
    => burstCalls = <<[input |-> query, at |-> lastChangeAt + wait]>>

C6_Witness ==
  /\ alive = "mounted"
  /\ readyAt = 0
  /\ lastChangeAt = 2
  /\ query = "berl"
  /\ now = 5
  /\ burstCalls = <<[input |-> "berl", at |-> 4]>>

\* C7: when the debounced fetch fires while the component is unmounted or
\* the query is no longer than the threshold, no call is made to the
\* prediction API (and the stored predictions and error stay as they are).
C7_GuardedFetchDoesNothing ==
  gpLast.op = "getPlacePredictions"
    => (~gpLast.unmounted /\ Len(query) > threshold)

\* C22: when the prediction API calls back with a status other than "OK"
\* the error flag is set and the predictions become the empty list; with
\* status "OK" the error flag is cleared and the predictions are the
\* formatted results of that response.
C22_CallbackSetsErrorOrPredictions ==
  (gpLast.op = "setState" /\ ~gpLast.unmounted)
    => IF gpLast.status = "OK"
       THEN gp = [error |-> "false", predictions |-> <<gpLast.input>>]
       ELSE gp = [error |-> "true", predictions |-> <<>>]

C22_Witness ==
  /\ gpLast.op = "setState"
  /\ ~gpLast.unmounted
  /\ gpLast.status = "ZERO_RESULTS"
  /\ gp = [error |-> "true", predictions |-> <<>>]
  /\ Len(issued) = 2

(***************************************************************************)
(* Properties of the script loader                                         *)
(***************************************************************************)
\* The callers that were handed a promise by loadScript.
Waiters == {c \in Callers : promise[c].status \in {"pending", "resolved", "rejected"}}

\* C8: when the loader is constructed two or more times before the script's
\* load event, exactly one script element is injected, and once load has
\* fired the promise of every one of those callers is resolved with the same
\* global object. (The singleton is shared whatever key a caller passes, so
\* this covers callers with the same key.)
C8_OneScriptAllResolve ==
  /\ injected <= 1
  /\ Waiters # {} => injected = 1
  /\ script.status = "loaded"
       => \A c \in Waiters : promise[c] = [status |-> "resolved", value |-> "google"]

C8_Witness ==
  /\ script.status = "loaded"
  /\ injected = 1
  /\ \E c, d \in Waiters :
       /\ c # d
       /\ instance[1].apiKey = "k1"
       /\ promise[c].status = "resolved"
       /\ promise[d].status = "resolved"
       /\ promise[c].value = promise[d].value

\* C9: once the injected script has fired its error event, the promise of
\* every caller is rejected, whether the caller attached before the event
\* or constructed the loader after it: none is left pending.
C9_ErrorRejectsEveryCaller ==
  script.status = "error"
    => \A c \in Waiters : promise[c].status = "rejected"

\* C23: a construction with neither an API key nor a client ID, or with
\* both, raises an error at construction time; a construction with exactly
\* one of the two raises none.
C23_CredentialsValidatedAtConstruction ==
  glLast.caller # 0
    => LET given == {k \in {"apiKey", "client"} : glLast.options[k] # ""}
       IN (promise[glLast.caller].status = "threw") <=> (Cardinality(given) # 1)

C23_Witness ==
  /\ glLast.caller = 2
  /\ glLast.options = [apiKey |-> "k1", client |-> "c1"]
  /\ promise[2].status = "threw"
  /\ promise[1].status = "pending"

\* C35: a construction that fails the credential validation does not become
\* the singleton: the script a later valid construction injects carries the
\* credentials of a valid construction.
C35_FailedConstructionIsNotSingleton ==
  /\ instance # <<>> => ~invalidOptions(instance[1])
  /\ script.status # "none"
       => script.src \in {createGoogleMapsApiUrl(o) : o \in {v \in Options : ~invalidOptions(v)}}

(***************************************************************************)
(* Properties of formatPredictions                                         *)
(***************************************************************************)
\* C24: the formatted text wraps exactly the flagged range (offset, length)
\* in emphasis markup and leaves every other character unmarked, also when
\* the flagged text occurs again elsewhere in the text.
C24_OnlyFlaggedRangeEmphasised ==
  fmt.formatted # <<>>
    => fmt.formatted =
         SubSeq(fmt.text, 1, fmt.offset)
         \o <<"<b>">> \o SubSeq(fmt.text, fmt.offset + 1, fmt.offset + fmt.length)
         \o <<"</b>">>
         \o SubSeq(fmt.text, fmt.offset + fmt.length + 1, Len(fmt.text))
====
